---- MODULE Spec2Model ----
(***************************************************************************)
(* A model of lilcom's reconstruction benchmark, test/test_reconstruction.  *)
(* The script loads every .wav file of a dataset directory, round-trips it  *)
(* through each configured codec (lilcom in process, MP3 through pydub and  *)
(* a temporary directory), computes a PSNR and a content hash for each      *)
(* reconstruction and prints one report row per file.                       *)
(*                                                                          *)
(* Numeric representation.  An array is a record                            *)
(*     [dtype, den, data, gain2]                                            *)
(* whose i-th sample has the value  data[i] / den * sqrt(gain2[1]/gain2[2]).*)
(* An int16 array has den = 1 and gain2 = <<1, 1>>.  A float32 array keeps  *)
(* its samples as exact fractions over the common denominator den, in       *)
(* lowest terms.  gain2 is the irrational part of the factor that PSNR      *)
(* multiplied into the array in place: a fraction of square-free numbers,   *)
(* <<1, 1>> for an array PSNR has not touched or has scaled by a rational   *)
(* factor, which is then worked into data and den.  A gain2 whose second    *)
(* component is 0 is the factor inf or NaN, which turns the all-zero array  *)
(* it is applied to into NaN samples.  The sample values drawn below are    *)
(* multiples of 8192 (of 8192/32768 once normalised), for which every       *)
(* float32 operation of the script is exact or rounds far from the          *)
(* comparisons made.  A finite PSNR is kept as the token "finite": the      *)
(* script derives it with two logarithms and only prints it.                *)
(***************************************************************************)
EXTENDS Integers, Sequences, FiniteSets, TLC

\* ---------------------------------------------------------------- bounds

\* The longest file list (the dataset directory's .wav files) of a run.
MaxFiles == 2
\* The number of evaluator configurations of the script's list that a run uses.
NumEvals == 2

\* ------------------------------------------------------ program constants

\* np.int16 / 32768 in PSNR and waveRead.
FullScale == 32768
\* hash(): the multiplier and the modulus int((2**16) - 1).
HashFactor == 2000
HashModulus == 2^16 - 1
\* The smallest np.int16, whose np.abs is itself.
Int16Min == -FullScale

\* --------------------------------------------------------------- helpers

Abs(x) == IF x < 0 THEN -x ELSE x

Sign(x) == IF x < 0 THEN -1 ELSE IF x = 0 THEN 0 ELSE 1

Min(a, b) == IF a < b THEN a ELSE b

RECURSIVE Gcd(_, _)
Gcd(a, b) == IF b = 0 THEN Abs(a) ELSE Gcd(b, a % Abs(b))

RECURSIVE SumSeq(_)
SumSeq(s) == IF s = <<>> THEN 0 ELSE Head(s) + SumSeq(Tail(s))

RECURSIVE GcdSeq(_)
GcdSeq(s) == IF s = <<>> THEN 0 ELSE Gcd(Head(s), GcdSeq(Tail(s)))

\* The largest m with m * m <= q, by bisection on lo..hi.
RECURSIVE IsqrtIn(_, _, _)
IsqrtIn(q, lo, hi) ==
    IF lo >= hi THEN lo
    ELSE LET mid == (lo + hi + 1) \div 2
         IN IF mid * mid <= q THEN IsqrtIn(q, mid, hi) ELSE IsqrtIn(q, lo, mid - 1)

Isqrt(q) == IsqrtIn(q, 0, 46340)

\* A fraction <<n, d>> in lowest terms; <<1, 0>> is inf and <<0, 0>> is NaN.
ReduceFrac(n, d) ==
    IF d = 0 THEN <<Sign(n), 0>>
    ELSE LET g == Gcd(n, d) IN <<n \div g, d \div g>>

\* ---------------------------------------------------------------- arrays

Int16Array(data) == [dtype |-> "int16", den |-> 1, data |-> data, gain2 |-> <<1, 1>>]

\* A float32 array of the samples data[i] / den, in lowest terms.
Float32Array(data, den) ==
    LET g == Gcd(GcdSeq(data), den)
    IN [dtype |-> "float32", den |-> den \div g,
        data |-> [i \in DOMAIN data |-> data[i] \div g], gain2 |-> <<1, 1>>]

Size(array) == Len(array.data)

IsNaN(array) == array.gain2[2] = 0

\* array.astype(np.float32) / 32768 of an np.int16 array: a new array.
AsFloat32Normalized(array) == Float32Array(array.data, FullScale)

\* np.abs of one np.int16 sample: the absolute value modulo 2^16.
AbsInt16(x) == IF x = Int16Min THEN Int16Min ELSE Abs(x)

SumAbs(array) ==
    SumSeq([i \in DOMAIN array.data |->
               IF array.dtype = "int16" THEN AbsInt16(array.data[i])
               ELSE Abs(array.data[i])])

\* The samples over their greatest common divisor: sums of squares and
\* comparisons of samples are taken on these and the divisor apart.
Primitive(data) ==
    IF GcdSeq(data) = 0 THEN data
    ELSE [i \in DOMAIN data |-> data[i] \div GcdSeq(data)]

SumSquares(data) == SumSeq([i \in DOMAIN data |-> data[i] * data[i]])

\* The largest k whose square divides n >= 1.
SquarePart(n) ==
    CHOOSE k \in 1..n : /\ n % (k * k) = 0
                        /\ \A m \in (k + 1)..n : n % (m * m) # 0

\* -------------------------------------------------------------- PSNR, hash

\* What a call returns: the exception it raised ("" for none) and its value.
Returned(value) == [raised |-> "", value |-> value]

Raised(exception) == [raised |-> exception, value |-> 0]

\* PSNR, lines 56-64: the peak, the mean square error and the score, given the
\* two float32 arrays, the sums of squares so and sr of their primitive
\* samples and the caller's reconstructed array as the scaling of line 53
\* left it.  The subtraction broadcasts a one-sample array and raises
\* ValueError on any other mismatch of the sizes.  The error is 0 when every
\* sample o[k] equals r[k] * sqrt(sum(o^2) / sum(r^2)).  With no energy in r
\* the scaled samples and the error are NaN, which is not 0, and math.log10
\* raises ValueError for a peak of 0.
PSNRScore(o, r, so, sr, left) ==
    LET psnr ==
          IF ~(Size(o) = Size(r) \/ Size(o) = 1 \/ Size(r) = 1) THEN "none"
          ELSE IF sr = 0 THEN (IF so = 0 THEN "none" ELSE "nan")
          ELSE IF \A k \in 1..(IF Size(o) > Size(r) THEN Size(o) ELSE Size(r)) :
                    LET ok == Primitive(o.data)[IF Size(o) = 1 THEN 1 ELSE k]
                        rk == Primitive(r.data)[IF Size(r) = 1 THEN 1 ELSE k]
                    IN /\ ok * ok * sr = so * rk * rk
                       /\ so = 0 \/ Sign(ok) = Sign(rk)
          THEN "inf"
          ELSE "finite"
    IN [raised |-> IF psnr = "none" THEN "ValueError" ELSE "",
        value |-> [psnr |-> psnr, reconstructedArray |-> left]]

\* The primitive samples pr times go / od * sqrt(q[1] / q[2]): the square
\* parts of q go into data and den, the rest is gain2.
ScaledBy(pr, go, od, q, a, b) ==
    [Float32Array([i \in DOMAIN pr |-> pr[i] * go * a], od * b)
        EXCEPT !.gain2 = <<q[1] \div (a * a), q[2] \div (b * b)>>]

\* r * sqrt(sum(o^2) / sum(r^2)) in float32, so and sr being the sums of
\* squares of the primitive samples of o and r: x / 0 is inf (NaN for 0 / 0)
\* and 0 * inf is NaN.
Scaled(o, r, so, sr, q) ==
    IF sr = 0 THEN [r EXCEPT !.gain2 = <<Sign(so), 0>>]
    ELSE IF so = 0 THEN Float32Array([i \in DOMAIN r.data |-> 0], 1)
    ELSE ScaledBy(Primitive(r.data), GcdSeq(o.data), o.den, q,
                  SquarePart(q[1]), SquarePart(q[2]))

\* PSNR without lines 51-54: the reconstruction is compared as it came.
PSNRCorrected_NoCorrection(o, r, so, sr, caller) ==
    LET psnr ==
          IF ~(Size(o) = Size(r) \/ Size(o) = 1 \/ Size(r) = 1) THEN "none"
          ELSE IF \A k \in 1..(IF Size(o) > Size(r) THEN Size(o) ELSE Size(r)) :
                    o.data[IF Size(o) = 1 THEN 1 ELSE k] * r.den =
                        r.data[IF Size(r) = 1 THEN 1 ELSE k] * o.den
          THEN "inf"
          ELSE IF so = 0 THEN "none"
          ELSE "finite"
    IN [raised |-> IF psnr = "none" THEN "ValueError" ELSE "",
        value |-> [psnr |-> psnr, reconstructedArray |-> caller]]

\* PSNR, lines 51-54: reconstructedArray *= sqrt(sum(o^2) / sum(r^2)), a
\* multiplication in place.  caller is the array the caller passed: r itself
\* when that is float32, which the multiplication then changes for the caller
\* too, and an int16 array, which stays as it is, otherwise.
PSNRCorrected(o, r, so, sr, caller) ==
    PSNRScore(o, r, so, sr,
              IF caller.dtype = "int16" THEN caller
              ELSE Scaled(o, r, so, sr, ReduceFrac(so, sr)))

\* PSNR(originalArray, reconstructedArray).  The value is [psnr, reconstructedArray]:
\* the score ("inf", "nan" or "finite") and the caller's reconstructed array as
\* the call leaves it.  Lines 46-49 rebind an int16 argument to a new float32
\* array.
PSNRFloat(o, r, caller) ==
    PSNRCorrected(o, r, SumSquares(Primitive(o.data)), SumSquares(Primitive(r.data)),
                  caller)

PSNR(originalArray, reconstructedArray) ==
    PSNRFloat(IF originalArray.dtype = "int16"
              THEN AsFloat32Normalized(originalArray) ELSE originalArray,
              IF reconstructedArray.dtype = "int16"
              THEN AsFloat32Normalized(reconstructedArray) ELSE reconstructedArray,
              reconstructedArray)

\* hash of a float32 array whose sum of absolute values is
\* x[1] / x[2] * sqrt(gain2[1] / gain2[2]), 2000 included: its integer part.
HashFloat32(x, gain2) ==
    (IF gain2 = <<1, 1>> THEN x[1] \div x[2]
     ELSE Isqrt((x[1] * x[1] * gain2[1]) \div (x[2] * x[2] * gain2[2]))) % HashModulus

\* hash(array): int(np.sum(np.abs(array)) * 2000) % 65535.  The sum of an int16
\* array is an exact integer; int() of NaN raises ValueError.
hash(array) ==
    IF array.dtype = "int16"
    THEN Returned((SumAbs(array) * HashFactor) % HashModulus)
    ELSE IF IsNaN(array) THEN Raised("ValueError")
    ELSE Returned(HashFloat32(ReduceFrac(SumAbs(array) * HashFactor, array.den),
                              array.gain2))

\* ------------------------------------------------------------ the dataset

\* The .wav files a dataset directory may hold: the sample rate, the sample
\* type and the samples of each (data[i] / den for a float32 file), and whether
\* scipy.io.wavfile.read can read it.
Dataset ==
    { [name |-> "a.wav", rate |-> 16000, dtype |-> "int16", den |-> 1,
       data |-> <<8192, 16384>>, readable |-> TRUE],
      [name |-> "b.wav", rate |-> 8000, dtype |-> "int16", den |-> 1,
       data |-> <<16384, -8192>>, readable |-> TRUE],
      [name |-> "c.wav", rate |-> 16000, dtype |-> "float32", den |-> 4,
       data |-> <<1, -2>>, readable |-> TRUE],
      [name |-> "d.wav", rate |-> 8000, dtype |-> "int16", den |-> 1,
       data |-> <<0, 0>>, readable |-> TRUE],
      [name |-> "e.wav", rate |-> 16000, dtype |-> "int16", den |-> 1,
       data |-> <<0, 8192>>, readable |-> FALSE] }

\* --samplerate: 0 when the argument is not given.
SampleRates == {0, 8000}

\* The array scipy.io.wavfile.read returns for a file.
WavData(file) ==
    IF file.dtype = "int16" THEN Int16Array(file.data)
    ELSE Float32Array(file.data, file.den)

\* librosa.core.resample(y, orig_sr, target_sr): ceil(n * target_sr / orig_sr)
\* samples; its interpolation is stood in for by the nearest earlier sample.
Resample(array, orig_sr, target_sr) ==
    LET n == (Size(array) * target_sr + orig_sr - 1) \div orig_sr
    IN Float32Array([i \in 1..n |-> array.data[((i - 1) * orig_sr) \div target_sr + 1]],
                    array.den)

\* A waveRead that takes every file at its native rate and makes that rate the
\* setting, as the real one does for the first file only.
waveRead_NativeRateOfEveryFile(file, sampleRate, setting) ==
    IF ~file.readable THEN Raised("LoadError")
    ELSE Returned([audioArray |-> WavData(file), sampleRate |-> file.rate])

\* waveRead(filename, sampleRate).  The value is [audioArray, sampleRate]: the
\* array returned and settings["sample-rate"] as the call leaves it, given its
\* value `setting` before the call.
waveRead(file, sampleRate, setting) ==
    IF ~file.readable THEN Raised("LoadError")
    ELSE IF sampleRate = 0
    THEN Returned([audioArray |-> WavData(file), sampleRate |-> file.rate])
    ELSE IF sampleRate # file.rate
    THEN IF file.dtype = "int16"
         THEN Returned([audioArray |->
                            Resample(AsFloat32Normalized(WavData(file)),
                                     file.rate, sampleRate),
                        sampleRate |-> setting])
         \* downsampledArray is assigned only under the int16 test
         ELSE Raised("UnboundLocalError")
    ELSE Returned([audioArray |-> WavData(file), sampleRate |-> setting])

\* ------------------------------------------------------- codec adapters

\* The array no call has produced yet (Python's None).
NoArray == [dtype |-> "none", den |-> 1, data |-> <<>>, gain2 |-> <<1, 1>>]

\* The evaulators list of the script; a parameter is kept as its characters.
ScriptEvaulators ==
    << [algorithm |-> "lilcom", additionalParam |-> <<"4">>],
       [algorithm |-> "MP3", additionalParam |-> <<"3", "2", "0", "k">>],
       [algorithm |-> "MP3", additionalParam |-> <<"2", "5", "6", "k">>],
       [algorithm |-> "MP3", additionalParam |-> <<"2", "2", "4", "k">>],
       [algorithm |-> "MP3", additionalParam |-> <<"1", "9", "2", "k">>],
       [algorithm |-> "MP3", additionalParam |-> <<"1", "6", "0", "k">>] >>

\* The configurations a run evaluates: the first NumEvals of the script's list.
evaulators == SubSeq(ScriptEvaulators, 1, Min(NumEvals, Len(ScriptEvaulators)))

\* What the lilcom library may do with an array: raise, or return a float32
\* array of the shape of its input that is the input
\* exactly, at twice the level, with the polarity inverted, silent, or with
\* an error in the last sample, of the step the samples are multiples of.
LilcomCodecs == {"raise", "exact", "louder", "inverted", "silent", "lossy"}

\* What pydub and the MP3 round trip may do: fail in one of the five calls
\* between mkdir and rm, or decode int16 samples, as many as the file holds,
\* that are the file's samples exactly, silent, or driven to the negative
\* full scale.
MP3Failures == {"from_wav", "export_mp3", "from_mp3", "export_wav", "read"}

MP3Codecs == MP3Failures \cup {"exact", "silent", "clipped"}

Codecs(algorithm) == IF algorithm = "lilcom" THEN LilcomCodecs ELSE MP3Codecs

\* lilcom.decompress(lilcom.compress(a, ...)) with the library behaving as codec.
LilcomRoundTrip(a, codec) ==
    CASE codec = "raise" -> Raised("CodecFailure")
      [] codec = "exact" -> Returned(Float32Array(a.data, a.den))
      [] codec = "louder" ->
             Returned(Float32Array([i \in DOMAIN a.data |-> 2 * a.data[i]], a.den))
      [] codec = "inverted" ->
             Returned(Float32Array([i \in DOMAIN a.data |-> -a.data[i]], a.den))
      [] codec = "silent" ->
             Returned(Float32Array([i \in DOMAIN a.data |-> 0], a.den))
      [] codec = "lossy" ->
             Returned(Float32Array([i \in DOMAIN a.data |->
                                       IF i = Size(a)
                                       THEN a.data[i] + (IF GcdSeq(a.data) = 0 THEN 1
                                                         ELSE GcdSeq(a.data))
                                       ELSE a.data[i]],
                                   a.den))

\* lilcomReconstruct(audioArray, lpcOrder), with the library behaving as codec.
\* Line 166 converts an int16 array to float32 as it is, at the int16 scale.
lilcomReconstruct(audioArray, lpcOrder, codec) ==
    LilcomRoundTrip(Float32Array(audioArray.data, audioArray.den), codec)

\* The 16-bit samples pydub reads from a file.
Pcm16(file) ==
    IF file.dtype = "int16" THEN file.data
    ELSE [i \in DOMAIN file.data |-> (file.data[i] * FullScale) \div file.den]

\* The array scipy.io.wavfile.read returns for reconst.wav, given the samples x
\* pydub read from the file and the tools behaving as codec.
MP3RoundTrip(x, codec) ==
    CASE codec = "exact" -> Int16Array(x)
      [] codec = "silent" -> Int16Array([i \in DOMAIN x |-> 0])
      [] codec = "clipped" -> Int16Array([i \in DOMAIN x |-> Int16Min])

\* MP3Reconstruct(filename, bitrate), with the tools behaving as codec.  The
\* value is the array read back; tmpDir tells whether ./ReconstTemp exists
\* when the call returns or raises: it is made before the first pydub call and
\* removed by the last statement before the return only.
MP3Reconstruct(file, bitrate, codec) ==
    IF codec \in MP3Failures
    THEN [raised |-> "ExternalToolFailure", value |-> NoArray, tmpDir |-> TRUE]
    ELSE [raised |-> "", value |-> MP3RoundTrip(Pcm16(file), codec), tmpDir |-> FALSE]

\* int() of a string of decimal digits.
DigitValue(c) ==
    CASE c = "0" -> 0 [] c = "1" -> 1 [] c = "2" -> 2 [] c = "3" -> 3 [] c = "4" -> 4
      [] c = "5" -> 5 [] c = "6" -> 6 [] c = "7" -> 7 [] c = "8" -> 8 [] c = "9" -> 9

RECURSIVE ParseInt(_)
ParseInt(chars) ==
    IF chars = <<>> THEN 0
    ELSE 10 * ParseInt(SubSeq(chars, 1, Len(chars) - 1)) + DigitValue(chars[Len(chars)])

\* returnValue["bitrate"] of evaluate
Bitrate(algorithm, additionalParam, sampleRate) ==
    IF algorithm = "lilcom" THEN 8 * sampleRate
    ELSE ParseInt(SubSeq(additionalParam, 1, Min(3, Len(additionalParam)))) * 1000

NoResult == [bitrate |-> 0, psnr |-> "none", hash |-> 0]

\* evaluate, the end: the returnValue, or the exception of hash.
EvaluateHash(bitrate, returned, p, h, dir) ==
    [raised |-> h.raised, tmpDir |-> dir,
     returnValue |-> IF h.raised # "" THEN NoResult
                     ELSE [bitrate |-> bitrate, psnr |-> p.value.psnr, hash |-> h.value],
     reconstructedArray |-> returned, left |-> p.value.reconstructedArray,
     psnr |-> p.value.psnr]

\* evaluate, after PSNR: the hash is taken of reconstructedArray as PSNR left it.
EvaluatePSNR(bitrate, returned, p, dir) ==
    IF p.raised # ""
    THEN [raised |-> p.raised, tmpDir |-> dir, returnValue |-> NoResult,
          reconstructedArray |-> returned, left |-> p.value.reconstructedArray,
          psnr |-> "raised"]
    ELSE EvaluateHash(bitrate, returned, p, hash(p.value.reconstructedArray), dir)

\* evaluate, after the adapter: rec is what lilcomReconstruct or MP3Reconstruct
\* returned or raised.
EvaluateReconstructed(audioArray, bitrate, rec, dir) ==
    IF rec.raised # ""
    THEN [raised |-> rec.raised, tmpDir |-> dir, returnValue |-> NoResult,
          reconstructedArray |-> NoArray, left |-> NoArray, psnr |-> "none"]
    ELSE EvaluatePSNR(bitrate, rec.value, PSNR(audioArray, rec.value), dir)

\* evaluate(filename, audioArray, algorithm, additionalParam), called with
\* settings["sample-rate"] = sampleRate and the codec behaving as codec.
\* Besides the exception and the returnValue, the record tells what the call
\* did: the array the adapter returned, that array when the call ends, the
\* PSNR computed (if any) and whether ./ReconstTemp exists at the end.
evaluate(file, audioArray, algorithm, additionalParam, sampleRate, dirExists, codec) ==
    IF algorithm = "lilcom"
    THEN EvaluateReconstructed(audioArray, Bitrate(algorithm, additionalParam, sampleRate),
                               lilcomReconstruct(audioArray, additionalParam, codec),
                               dirExists)
    ELSE EvaluateReconstructed(audioArray, Bitrate(algorithm, additionalParam, sampleRate),
                               MP3Reconstruct(file, additionalParam, codec),
                               codec \in MP3Failures)

\* ------------------------------------------------------------------ logger

\* A text is the sequence of its pieces: a piece is the tab "\t" (the comma
\* "," after replace) or a run of other characters.
TAB == "\t"

RECURSIVE Concat(_)
Concat(pieces) == IF pieces = <<>> THEN "" ELSE Head(pieces) \o Concat(Tail(pieces))

RECURSIVE Flatten(_)
Flatten(texts) == IF texts = <<>> THEN <<>> ELSE Head(texts) \o Flatten(Tail(texts))

\* text.replace(old, new) for a one-character old.
Replace(text, old, new) == [i \in DOMAIN text |-> IF text[i] = old THEN new ELSE text[i]]

\* '%.2f' % psnr
Format2f(psnr) == IF psnr = "finite" THEN "#.##" ELSE psnr

\* The name of an evaluator's columns: algorithm + str(additionalParam).
ColumnName(evaluator) == evaluator.algorithm \o Concat(evaluator.additionalParam)

\* headerLine of logger("initialization")
HeaderLine(evaluatorList) ==
    <<"filename", TAB>> \o
    Flatten([i \in DOMAIN evaluatorList |->
               << ColumnName(evaluatorList[i]) \o "-bitrate", TAB,
                  ColumnName(evaluatorList[i]) \o "-psnr", TAB,
                  ColumnName(evaluatorList[i]) \o "-hash", TAB >>])

\* text of logger("initialization")
InitializationText(sampleRate, evaluatorList) ==
    << "Reconstruction Test called for lilcom... \n",
       "The report is on the dataset placed at: ", "./dataset", "\n",
       "The sample-rate is set to ",
       IF sampleRate = 0 THEN "the default sample rate of dataset"
       ELSE ToString(sampleRate),
       "\n" >> \o HeaderLine(evaluatorList)

\* reportList[1:] of a Python list, which TLA+ indexes from 1.
Elements(reportList) == SubSeq(reportList, 2, Len(reportList))

\* text of logger("result", reportList)
ResultText(reportList) ==
    <<reportList[1], TAB>> \o
    Flatten([i \in DOMAIN Elements(reportList) |->
               LET elementResult == Elements(reportList)[i].result
               IN << ToString(elementResult.bitrate), TAB, TAB,
                     Format2f(elementResult.psnr), TAB, TAB,
                     ToString(elementResult.hash), TAB, TAB >>])

\* ------------------------------------------------------------------- state

VARIABLES
    args,       \* the parsed command line: samplerate, releasedf, releaselog
    settings,   \* the global settings dictionary
    fileList,   \* the .wav files of the dataset directory, in os.listdir order
    pc,         \* where the script is: "start", "loop", "evaluators", "done", "aborted"
    file,       \* the index in fileList of the outer loop's file
    evaluator,  \* the index in evaulators of the inner loop's evaluator
    audioArray, \* the array waveRead returned for the file
    fileEvaluationResultList,  \* [basename, {evaluator, result}, ...]
    stdout,     \* the texts printed
    logFile,    \* the lines written to settings["release-log"]
    csvFile,    \* the lines written to settings["release-df"]
    tmpDir,     \* whether ./ReconstTemp exists
    exception,  \* the uncaught exception that ended the script, "" for none
    lastLoad,   \* the last call of waveRead by the loop: arguments and outcome
    lastEval    \* the last call of evaluate by the loop: arguments and outcome

vars == <<args, settings, fileList, pc, file, evaluator, audioArray,
          fileEvaluationResultList, stdout, logFile, csvFile, tmpDir, exception,
          lastLoad, lastEval>>

Range(seq) == {seq[i] : i \in DOMAIN seq}

\* The lists of at most n distinct files of the dataset, in any order.
FileLists(n) ==
    {l \in UNION {[1..k -> Dataset] : k \in 0..n} :
        \A i, j \in DOMAIN l : l[i] = l[j] => i = j}

NoLoad == [file |-> 0, sampleRate |-> 0, raised |-> "", audioArray |-> NoArray]

NoEval == [file |-> 0, evaluator |-> 0, codec |-> "", raised |-> "",
           originalArray |-> NoArray,
           reconstructedArray |-> NoArray, left |-> NoArray, psnr |-> "none",
           returnValue |-> [bitrate |-> 0, psnr |-> "none", hash |-> 0]]

\* The state when the argument parsing and the settings are done (lines 292-376).
\* The two mirror files, which logger writes independently of each other and
\* of everything else, are asked for together or not at all; no ./ReconstTemp
\* is left of an earlier run.
Init ==
    /\ args \in {a \in [samplerate : SampleRates, releasedf : BOOLEAN,
                         releaselog : BOOLEAN] : a.releaselog = a.releasedf}
    /\ settings = ("sample-rate" :> args.samplerate @@ "release-df" :> args.releasedf
                   @@ "release-log" :> args.releaselog)
    /\ fileList \in FileLists(MaxFiles)
    /\ pc = "start"
    /\ file = 0
    /\ evaluator = 0
    /\ audioArray = NoArray
    /\ fileEvaluationResultList = <<>>
    /\ stdout = <<>>
    /\ logFile = <<>>
    /\ csvFile = <<>>
    /\ tmpDir = FALSE
    /\ exception = ""
    /\ lastLoad = NoLoad
    /\ lastEval = NoEval

\* The writes of logger to the sinks: print(text), then the log and the csv file.
Emit(text, csvLine) ==
    /\ stdout' = Append(stdout, text)
    /\ logFile' = IF settings["release-log"] THEN Append(logFile, text) ELSE logFile
    /\ csvFile' = IF settings["release-df"] THEN Append(csvFile, csvLine) ELSE csvFile

\* logger(logmod="initialization")
LoggerInitialization ==
    /\ pc = "start"
    /\ Emit(InitializationText(settings["sample-rate"], evaulators),
            Replace(HeaderLine(evaulators), TAB, ","))
    /\ pc' = "loop"
    /\ file' = 1
    /\ UNCHANGED <<args, settings, fileList, evaluator, audioArray,
                   fileEvaluationResultList, tmpDir, exception, lastLoad, lastEval>>

\* The loop's step for a file, given what waveRead returned or raised.
Loaded(read) ==
    /\ lastLoad' = [file |-> file, sampleRate |-> settings["sample-rate"],
                    raised |-> read.raised,
                    audioArray |-> IF read.raised = "" THEN read.value.audioArray
                                   ELSE NoArray]
    /\ IF read.raised = ""
       THEN /\ audioArray' = read.value.audioArray
            /\ settings' = [settings EXCEPT !["sample-rate"] = read.value.sampleRate]
            /\ fileEvaluationResultList' = <<fileList[file].name>>
            /\ evaluator' = 1
            /\ pc' = "evaluators"
            /\ UNCHANGED exception
       ELSE /\ pc' = "aborted"
            /\ exception' = read.raised
            /\ UNCHANGED <<audioArray, settings, fileEvaluationResultList, evaluator>>

\* for file in fileList: audioArray = waveRead(file, settings["sample-rate"]);
\* fileEvaluationResultList = [os.path.basename(file)]
LoadFile ==
    /\ pc = "loop"
    /\ file <= Len(fileList)
    /\ Loaded(waveRead(fileList[file], settings["sample-rate"], settings["sample-rate"]))
    /\ UNCHANGED <<args, fileList, file, stdout, logFile, csvFile, tmpDir, lastEval>>

\* The inner loop's step for an evaluator, given what evaluate did.
Evaluated(codec, call) ==
    /\ lastEval' = [file |-> file, evaluator |-> evaluator, codec |-> codec,
                    raised |-> call.raised, originalArray |-> audioArray,
                    reconstructedArray |-> call.reconstructedArray,
                    left |-> call.left, psnr |-> call.psnr,
                    returnValue |-> call.returnValue]
    /\ tmpDir' = call.tmpDir
    /\ IF call.raised = ""
       THEN /\ fileEvaluationResultList' =
                  Append(fileEvaluationResultList,
                         [evaluator |-> evaulators[evaluator], result |-> call.returnValue])
            /\ evaluator' = evaluator + 1
            /\ UNCHANGED <<pc, exception>>
       ELSE /\ pc' = "aborted"
            /\ exception' = call.raised
            /\ UNCHANGED <<fileEvaluationResultList, evaluator>>

\* for evaluator in evaulators: evaluationResult = evaluate(...);
\* fileEvaluationResultList.append({"evaluator": ..., "result": ...})
Evaluate ==
    /\ pc = "evaluators"
    /\ evaluator <= Len(evaulators)
    /\ \E codec \in Codecs(evaulators[evaluator].algorithm) :
         Evaluated(codec,
                   evaluate(fileList[file], audioArray, evaulators[evaluator].algorithm,
                            evaulators[evaluator].additionalParam,
                            settings["sample-rate"], tmpDir, codec))
    /\ UNCHANGED <<args, settings, fileList, file, audioArray, stdout, logFile, csvFile,
                   lastLoad>>

\* logger("result", fileEvaluationResultList), and on to the next file
LoggerResult ==
    /\ pc = "evaluators"
    /\ evaluator > Len(evaulators)
    /\ Emit(ResultText(fileEvaluationResultList),
            Replace(ResultText(fileEvaluationResultList), TAB, ","))
    /\ file' = file + 1
    /\ pc' = "loop"
    /\ UNCHANGED <<args, settings, fileList, evaluator, audioArray,
                   fileEvaluationResultList, tmpDir, exception, lastLoad, lastEval>>

\* The file list is exhausted: the script ends.
Finish ==
    /\ pc = "loop"
    /\ file > Len(fileList)
    /\ pc' = "done"
    /\ UNCHANGED <<args, settings, fileList, file, evaluator, audioArray,
                   fileEvaluationResultList, stdout, logFile, csvFile, tmpDir, exception,
                   lastLoad, lastEval>>

Next == LoggerInitialization \/ LoadFile \/ Evaluate \/ LoggerResult \/ Finish

Spec == Init /\ [][Next]_vars

\* ------------------------------------------------------------------ claims

\* The pieces of a text that are not tabs.
Values(text) == SelectSeq(text, LAMBDA piece : piece # TAB)

\* The number of result rows printed.
RowsPrinted == IF stdout = <<>> THEN 0 ELSE Len(stdout) - 1

\* The values of the k-th result row printed.
RowValues(k) == Values(stdout[k + 1])

\* The values of the header line, the last line of the first text printed.
HeaderValues ==
    Values(SubSeq(stdout[1], Len(stdout[1]) - Len(HeaderLine(evaulators)) + 1,
                  Len(stdout[1])))

\* text.split(sep)
RECURSIVE Split(_, _)
Split(text, sep) ==
    IF text = <<>> THEN <<"">>
    ELSE LET rest == Split(Tail(text), sep)
         IN IF Head(text) = sep THEN <<"">> \o rest
            ELSE <<Head(text) \o Head(rest)>> \o Tail(rest)

IsZero(array) == \A i \in DOMAIN array.data : array.data[i] = 0

\* r = k * o for a scalar k # 0, and the sign of k.
Collinear(o, r) ==
    /\ Size(o) = Size(r)
    /\ ~IsZero(o)
    /\ ~IsZero(r)
    /\ \A i, j \in DOMAIN o.data : o.data[i] * r.data[j] = o.data[j] * r.data[i]

DotSign(o, r) == Sign(SumSeq([i \in DOMAIN o.data |-> Sign(o.data[i]) * Sign(r.data[i])]))

\* C1: for any file list, the run prints exactly one result row per file, in
\* the order of the file list, each only after every configuration has been
\* evaluated for that file (the call of evaluate before the row is that of the
\* last configuration, for that file, and the row is the list of results the
\* loop has gathered); every row holds the file's name and one (bitrate,
\* score, fingerprint) triplet per configured evaluator, in the order of the
\* header's triplets; a run that has ended, normally or by an exception of
\* the script's own computation (every file readable, no codec or tool
\* raising), has printed a row for every file of the list.
C1_OneRowPerFileInOrder ==
    /\ pc = "start" => stdout = <<>>
    /\ pc # "start" =>
         /\ Len(stdout) >= 1
         /\ RowsPrinted = file - 1
         /\ (pc = "done" \/ (pc = "aborted" /\ exception \in {"ValueError",
                                                              "UnboundLocalError"}))
               => RowsPrinted = Len(fileList)
         /\ LET header == HeaderValues
            IN /\ Len(header) = 1 + 3 * Len(evaulators)
               /\ \A i \in DOMAIN evaulators :
                    /\ header[3 * i - 1] = ColumnName(evaulators[i]) \o "-bitrate"
                    /\ header[3 * i] = ColumnName(evaulators[i]) \o "-psnr"
                    /\ header[3 * i + 1] = ColumnName(evaulators[i]) \o "-hash"
         /\ \A k \in 1..RowsPrinted :
              LET row == RowValues(k)
              IN /\ Len(row) = 1 + 3 * Len(evaulators)
                 /\ row[1] = fileList[k].name
                 /\ \A i \in DOMAIN evaulators :
                      row[3 * i - 1] =
                          ToString(Bitrate(evaulators[i].algorithm,
                                           evaulators[i].additionalParam,
                                           settings["sample-rate"]))
         /\ (pc \in {"loop", "done"} /\ RowsPrinted >= 1) =>
              /\ lastEval.file = RowsPrinted
              /\ lastEval.evaluator = Len(evaulators)
              /\ lastEval.raised = ""
              /\ Len(fileEvaluationResultList) = 1 + Len(evaulators)
              /\ LET row == RowValues(RowsPrinted)
                 IN \A i \in DOMAIN evaulators :
                      /\ fileEvaluationResultList[i + 1].evaluator = evaulators[i]
                      /\ row[3 * i] =
                             Format2f(fileEvaluationResultList[i + 1].result.psnr)
                      /\ row[3 * i + 1] =
                             ToString(fileEvaluationResultList[i + 1].result.hash)

\* C2: a codec failure in the round trip of a (file, config) pair is recorded as
\* a failed result and the run goes on with the other configs and files.
C2_CodecFailureIsIsolated ==
    lastEval.raised \in {"CodecFailure", "ExternalToolFailure"} => pc # "aborted"

\* C3: after a round trip of the MP3 adapter has returned or failed, its
\* temporary directory does not exist.
C3_TempDirRemovedOnEveryExit ==
    (lastEval.evaluator >= 1 /\ evaulators[lastEval.evaluator].algorithm = "MP3")
        => ~tmpDir

\* C4: the score of a nonzero original against a reconstruction without energy
\* ends in SilentReconstructionError, never in a NaN or infinite score.
C4_SilentReconstructionIsAnError ==
    (/\ lastEval.reconstructedArray.dtype # "none"
     /\ Size(lastEval.reconstructedArray) = Size(lastEval.originalArray)
     /\ IsZero(lastEval.reconstructedArray)
     /\ ~IsZero(lastEval.originalArray))
        => /\ lastEval.raised = "SilentReconstructionError"
           /\ lastEval.psnr \notin {"nan", "inf"}

\* C5, as claimed: the score of a nonzero original o against k * o is the
\* sentinel "inf" for every scalar k # 0, positive or negative.
C5_ScaleInvariantForAnyK ==
    Collinear(lastEval.originalArray, lastEval.reconstructedArray)
        => lastEval.psnr = "inf"

\* C5, amended: the score of a nonzero original o against k * o is the sentinel
\* "inf" for every scalar k > 0 (k and the products being exact in float32);
\* for k < 0 the corrected reconstruction is -o and the score is finite.
C5_ScaleInvariantForPositiveK ==
    Collinear(lastEval.originalArray, lastEval.reconstructedArray)
        => lastEval.psnr =
               IF DotSign(lastEval.originalArray, lastEval.reconstructedArray) > 0
               THEN "inf" ELSE "finite"

\* C5, witness: lilcom has returned a nonzero original at twice its level and
\* the score is "inf".
C5_Witness ==
    /\ lastEval.codec = "louder"
    /\ Collinear(lastEval.originalArray, lastEval.reconstructedArray)
    /\ lastEval.reconstructedArray # lastEval.originalArray
    /\ lastEval.psnr = "inf"

\* C6: the original and the reconstruction handed to PSNR have the same size,
\* for both adapters, also when the loader has resampled the original.
C6_SameSizeAtPSNR ==
    lastEval.reconstructedArray.dtype # "none"
        => Size(lastEval.originalArray) = Size(lastEval.reconstructedArray)

\* C7: in a run started without a sample rate, the load of the first file
\* returns its samples unchanged and makes its native rate the setting; every
\* later file is loaded against that rate, and the setting stays at it for the
\* rest of the run.
C7_FirstFileDeterminesRate ==
    args.samplerate = 0 =>
        /\ lastLoad.file = 0 => settings["sample-rate"] = 0
        /\ (lastLoad.file = 1 /\ lastLoad.raised # "") => settings["sample-rate"] = 0
        /\ (lastLoad.file = 1 /\ lastLoad.raised = "") =>
              /\ lastLoad.sampleRate = 0
              /\ lastLoad.audioArray = WavData(fileList[1])
              /\ audioArray = WavData(fileList[1])
        /\ (lastLoad.file > 1 \/ (lastLoad.file = 1 /\ lastLoad.raised = "")) =>
              settings["sample-rate"] = fileList[1].rate
        /\ lastLoad.file > 1 => lastLoad.sampleRate = fileList[1].rate

\* C7, witness: the run was started without a rate and has loaded a second
\* file whose native rate is not the first file's.
C7_Witness ==
    /\ args.samplerate = 0
    /\ lastLoad.file = 2
    /\ lastLoad.raised = ""
    /\ fileList[2].rate # fileList[1].rate
    /\ Size(lastLoad.audioArray) # Len(fileList[2].data)

\* C8: a load with a rate that is set and is not the file's returns the samples
\* resampled to that rate, for int16 and for float32 files, and a load with the
\* file's own rate returns the file's samples.
C8_LoadResamplesEveryDtype ==
    (lastLoad.file >= 1 /\ fileList[lastLoad.file].readable /\ lastLoad.sampleRate # 0) =>
        /\ lastLoad.raised = ""
        /\ lastLoad.audioArray =
             IF lastLoad.sampleRate = fileList[lastLoad.file].rate
             THEN WavData(fileList[lastLoad.file])
             ELSE Resample(IF fileList[lastLoad.file].dtype = "int16"
                           THEN AsFloat32Normalized(WavData(fileList[lastLoad.file]))
                           ELSE WavData(fileList[lastLoad.file]),
                           fileList[lastLoad.file].rate, lastLoad.sampleRate)

\* C9: every row of the csv file splits on the comma into as many fields as
\* the header, with the bitrate, the score and the fingerprint of evaluator i in
\* the fields of the header's i-th -bitrate, -psnr and -hash columns.
C9_CsvRowsAlignWithHeader ==
    \A k \in 2..Len(csvFile) :
        /\ Len(Split(csvFile[k], ",")) = Len(Split(csvFile[1], ","))
        /\ \A i \in DOMAIN evaulators :
             /\ Split(csvFile[1], ",")[3 * i - 1] = ColumnName(evaulators[i]) \o "-bitrate"
             /\ Split(csvFile[k], ",")[3 * i - 1] = Values(stdout[k])[3 * i - 1]
             /\ Split(csvFile[k], ",")[3 * i] = Values(stdout[k])[3 * i]
             /\ Split(csvFile[k], ",")[3 * i + 1] = Values(stdout[k])[3 * i + 1]

\* C10: the fingerprint of a result is that of the reconstructed array as the
\* adapter returned it; the score's computation leaves that array unchanged.
C10_FingerprintOfReturnedArray ==
    (lastEval.evaluator >= 1 /\ lastEval.raised = "") =>
        /\ lastEval.left = lastEval.reconstructedArray
        /\ lastEval.returnValue.hash = hash(lastEval.reconstructedArray).value

====
